---- MODULE Spec2Model ----
(***************************************************************************)
(* Model of the two command-line scripts of the repository:                *)
(*   subject_level/main.py         (training of a subject-level 3D CNN)    *)
(*   patch_level/main_test_multi_cnn.py  (test of a patch-level multi-CNN) *)
(* together with the library routines they call (train, the weight-copy    *)
(* routines, the voting aggregator), whose code lives outside the two      *)
(* scripts and is modelled from the design document.                       *)
(***************************************************************************)
EXTENDS Integers, Sequences, FiniteSets, TLC

(* ------------------------------ bounds -------------------------------- *)
\* largest value tried for --evaluation_steps and --accumulation_steps
MaxSteps == 3
\* largest value tried for --transfer_difference
MaxDifference == 2
\* number of convolutional stages of the destination model
NumStages == 5
\* largest value tried for --epochs
MaxEpochs == 4
\* validation losses are drawn from 1..MaxLoss
MaxLoss == 2
\* validation accuracies are drawn from 0..MaxAcc
MaxAcc == 1
\* largest value tried for --patience
MaxPatience == 2
\* largest value tried for --tolerance
MaxTolerance == 1
\* largest number of rows of the test table
MaxSamples == 2
\* largest value tried for --batch_size (patch-level)
MaxBatch == 2
\* largest value tried for --num_cnn
MaxCnn == 2
\* number of patch classifiers of the ensemble whose votes are aggregated
VoteCnn == 3
\* largest number of subjects whose votes are aggregated
VoteSamples == 2

VARIABLES
    script,        \* which script runs: "subject" or "patch"
    pc,            \* position of the control thread
    unknown,       \* commandline[1]: the arguments the parser did not recognise
    options,       \* commandline[0] of the subject-level script
    fs,            \* what the file system holds at options.transfer_learning
    calls,         \* the calls made so far, in order; arg is the set holding
                   \* the integer argument of interest, if the call has one
    err,           \* the exception that ended the run, or "none"
    copied,        \* stages of the destination model that received weights
    trainer,       \* state of the training loop orchestrator
    history,       \* validation results seen, one <<loss, acc>> per check
    best_loss,     \* the best_loss checkpoint on disk
    best_acc,      \* the best_acc checkpoint on disk
    best_epoch,    \* what load_model returned to main after training
    toptions,      \* options object handed to the patch-level main
    n,             \* loop variable of the patch-level main
    results,       \* result tables written by hard_voting_to_tsvs, by patch index
    test_df,       \* rows of the test table, numbered 1..len(test_df)
    y_hat,         \* what test() returned last: a prediction per sample
    confidence,    \* validation confidence of each patch classifier
    voting_args,   \* the arguments the voting aggregator was called with
    aggregate      \* rows written by multi_cnn_soft_majority_voting

vars == <<script, pc, unknown, options, fs, calls, err, copied, trainer, history,
          best_loss, best_acc, best_epoch, toptions, n, results, test_df, y_hat,
          confidence, voting_args, aggregate>>

\* the variables of the subject-level script
svars == <<options, fs, copied, trainer, history, best_loss, best_acc, best_epoch>>
\* the variables of the patch-level script
pvars == <<toptions, n, results, test_df, y_hat, confidence, voting_args,
          aggregate>>

Call(op, arg) == [op |-> op, arg |-> arg]
Called(op) == \E i \in 1..Len(calls) : calls[i].op = op
CountCalls(op) == Cardinality({i \in 1..Len(calls) : calls[i].op = op})
FirstCall(op) == CHOOSE i \in 1..Len(calls) :
                    calls[i].op = op /\ \A j \in 1..(i-1) : calls[j].op # op

(* ===================== subject_level/main.py ========================== *)

\* The checkpoint structures a file at options.transfer_learning can have:
\* its parameter groups.  "absent" stands for a path that does not exist.
Files == {"absent", "autoencoder", "network"}
ParameterGroups(file) ==
    IF file = "autoencoder" THEN {"encoder", "decoder"}
    ELSE IF file = "network" THEN {"features", "classifier"}
    ELSE {}

\* path.exists(options.transfer_learning)
path_exists(file) == file # "absent"

\* utils.model.transfer_from_autoencoder: a decoder-stage parameter group
\* signals autoencoder weights
transfer_from_autoencoder(file) == "decoder" \in ParameterGroups(file)

Stages == 0..(NumStages - 1)

\* utils.model.apply_autoencoder_weights(model, path, output_dir, split,
\* difference): the first `difference` convolutional stages of the
\* destination model are skipped
apply_autoencoder_weights(difference) == {s \in Stages : s >= difference}

\* utils.model.apply_pretrained_network_weights(model, path, output_dir,
\* split): the routine receives no difference, every stage is loaded
apply_pretrained_network_weights == Stages

\* line 111: options.model not in choices
ModelNotImplemented(o) == ~o.model_is_class

\* the cadence check with the remainder test inverted (== for !=)
StepsMismatchInverted(o) ==
    o.evaluation_steps % o.accumulation_steps = 0 /\ o.evaluation_steps # 1

\* the cadence check with the exemption inverted (== 1 for != 1)
StepsMismatchOnlyOne(o) ==
    o.evaluation_steps % o.accumulation_steps # 0 /\ o.evaluation_steps = 1

\* line 119: the evaluation cadence check
StepsMismatch(o) ==
    o.evaluation_steps % o.accumulation_steps # 0 /\ o.evaluation_steps # 1

\* the options the subject-level parser can produce (the fields main's
\* control flow reads).  model_is_class: options.model names a class of the
\* module utils.model; model_in_scope: that name is also bound in the
\* namespace of main.py, where eval(options.model) looks it up.
SubjectOptions ==
    [model_is_class : BOOLEAN, model_in_scope : BOOLEAN,
     evaluation_steps : 1..MaxSteps, accumulation_steps : 1..MaxSteps,
     transfer_learning : {"None", "path"},
     transfer_learning_diagnoses : {"None", "given"},
     transfer_difference : 0..MaxDifference,
     epochs : 1..MaxEpochs, patience : 1..MaxPatience,
     tolerance : 0..MaxTolerance]

NoCheckpoint == [epoch |-> 0, loss |-> 0, acc |-> 0]
IdleTrainer == [state |-> "Idle", epoch |-> 0, bad |-> 0, ref |-> 0]

Fail(exception) ==
    /\ pc' = "error"
    /\ err' = exception

\* lines 242-248: the script's entry point, up to the call of main
SubjectCli ==
    /\ script = "subject"
    /\ pc = "cli"
    /\ calls' = calls \o <<Call("commandline_to_json", {})>>
                      \o (IF unknown # <<>>
                          THEN <<Call("print unknown arguments", {})>>
                          ELSE <<>>)
                      \o <<Call("main", {})>>
    /\ pc' = "main"
    /\ UNCHANGED <<script, unknown, err, svars, pvars>>

\* lines 106-112: the model must be a class of the module model
MainCheckModel ==
    /\ script = "subject"
    /\ pc = "main"
    /\ IF ModelNotImplemented(options)
       THEN Fail("NotImplementedError")
       ELSE pc' = "check_steps" /\ err' = err
    /\ UNCHANGED <<script, unknown, calls, svars, pvars>>

\* lines 118-121: evaluation steps against accumulation steps
MainCheckSteps ==
    /\ script = "subject"
    /\ pc = "check_steps"
    /\ IF StepsMismatch(options)
       THEN Fail("Exception: evaluation steps")
       ELSE pc' = "pretraining" /\ err' = err
    /\ UNCHANGED <<script, unknown, calls, svars, pvars>>

\* lines 130-168: pretraining of the model
MainPretraining ==
    /\ script = "subject"
    /\ pc = "pretraining"
    /\ IF options.transfer_learning = "None"
       THEN pc' = "data" /\ UNCHANGED <<err, calls, copied>>
       ELSE IF ~options.model_in_scope
       \* line 131: eval(options.model) finds no such name in main.py
       THEN Fail("NameError") /\ UNCHANGED <<calls, copied>>
       ELSE IF path_exists(fs)
       THEN /\ pc' = "data"
            /\ err' = err
            /\ IF transfer_from_autoencoder(fs)
               THEN /\ calls' = Append(calls, Call("apply_autoencoder_weights",
                                            {options.transfer_difference}))
                    /\ copied' = apply_autoencoder_weights(options.transfer_difference)
               ELSE /\ calls' = Append(calls, Call("apply_pretrained_network_weights", {}))
                    /\ copied' = apply_pretrained_network_weights
       ELSE IF options.transfer_learning_diagnoses = "None"
       THEN Fail("Exception: diagnosis labels") /\ UNCHANGED <<calls, copied>>
       ELSE /\ pc' = "greedy_learning"
            /\ calls' = Append(calls, Call("greedy_learning", {}))
            /\ UNCHANGED <<err, copied>>
    /\ UNCHANGED <<script, unknown, options, fs, trainer, history, best_loss,
                   best_acc, best_epoch, pvars>>

\* line 168: the nested pretraining loop returns
GreedyLearningReturn ==
    /\ script = "subject"
    /\ pc = "greedy_learning"
    /\ calls' = Append(calls, Call("greedy_learning returned", {}))
    /\ pc' = "data"
    /\ UNCHANGED <<script, unknown, err, svars, pvars>>

\* lines 170-220: data, model, optimizer, then the call of train
MainTrain ==
    /\ script = "subject"
    /\ pc = "data"
    /\ calls' = Append(calls, Call("train", {}))
    /\ trainer' = [IdleTrainer EXCEPT !.state = "Running"]
    /\ pc' = "train"
    /\ UNCHANGED <<script, unknown, err, options, fs, copied, history, best_loss,
                   best_acc, best_epoch, pvars>>

(* --------- utils.classification_utils.train (design document 4.2) ------ *)

\* early stopping: the loss improves on the reference by more than tolerance;
\* the first check has no reference and counts as an improvement
is_better(loss, tr, tolerance) == tr.epoch = 0 \/ tr.ref - loss > tolerance

\* the early-stopping counter, were an improving check not to reset it
num_bad_epochs_no_reset(loss, tr, tolerance) ==
    IF is_better(loss, tr, tolerance) THEN tr.bad ELSE tr.bad + 1

\* the early-stopping counter after a check
num_bad_epochs(loss, tr, tolerance) ==
    IF is_better(loss, tr, tolerance) THEN 0 ELSE tr.bad + 1

\* the state of the orchestrator after the check that ends epoch e
TrainerState(bad, e, o) ==
    IF bad >= o.patience THEN "EarlyStopped"
    ELSE IF e = o.epochs THEN "Completed"
    ELSE "Running"

\* the best_loss checkpoint after a validation: superseded on a strictly
\* lower loss only
save_best_loss(ckpt, e, loss, acc) ==
    IF ckpt.epoch = 0 \/ loss < ckpt.loss
    THEN [epoch |-> e, loss |-> loss, acc |-> acc] ELSE ckpt

\* the best_acc checkpoint after a validation: superseded on a strictly
\* higher accuracy only
save_best_acc(ckpt, e, loss, acc) ==
    IF ckpt.epoch = 0 \/ acc > ckpt.acc
    THEN [epoch |-> e, loss |-> loss, acc |-> acc] ELSE ckpt

\* one epoch of train, ended by a validation with the given results
TrainEpoch(loss, acc) ==
    LET e   == trainer.epoch + 1
        bad == num_bad_epochs(loss, trainer, options.tolerance)
    IN  /\ history' = Append(history, <<loss, acc>>)
        /\ best_loss' = save_best_loss(best_loss, e, loss, acc)
        /\ best_acc' = save_best_acc(best_acc, e, loss, acc)
        /\ trainer' = [state |-> TrainerState(bad, e, options),
                       epoch |-> e,
                       bad   |-> bad,
                       ref   |-> IF is_better(loss, trainer, options.tolerance)
                                 THEN loss ELSE trainer.ref]

TrainStep ==
    /\ script = "subject"
    /\ pc = "train"
    /\ trainer.state = "Running"
    /\ \E loss \in 1..MaxLoss, acc \in 0..MaxAcc : TrainEpoch(loss, acc)
    /\ UNCHANGED <<script, pc, unknown, calls, err, options, fs, copied,
                   best_epoch, pvars>>

\* line 220 returns: train has halted, early or after the last epoch
TrainReturn ==
    /\ script = "subject"
    /\ pc = "train"
    /\ trainer.state \in {"EarlyStopped", "Completed"}
    /\ pc' = "load"
    /\ UNCHANGED <<script, unknown, calls, err, svars, pvars>>

\* utils.classification_utils.load_model: the epoch stored in a checkpoint
load_model(ckpt) == ckpt.epoch

\* the reload, were it to read the best_acc checkpoint
MainLoadBestAcc ==
    /\ script = "subject"
    /\ pc = "load"
    /\ calls' = Append(calls, Call("load_model", {load_model(best_acc)}))
    /\ best_epoch' = load_model(best_acc)
    /\ pc' = "done"
    /\ UNCHANGED <<script, unknown, err, options, fs, copied, trainer, history,
                   best_loss, best_acc>>
    /\ UNCHANGED pvars

\* lines 222-239: the best_loss checkpoint is loaded and reported
MainLoadBest ==
    /\ script = "subject"
    /\ pc = "load"
    /\ calls' = Append(calls, Call("load_model", {load_model(best_loss)}))
    /\ best_epoch' = load_model(best_loss)
    /\ pc' = "done"
    /\ UNCHANGED <<script, unknown, err, options, fs, copied, trainer, history,
                   best_loss, best_acc, pvars>>

(* ================ patch_level/main_test_multi_cnn.py ================== *)

\* lines 19-57: the attributes parse_known_args gives the options object
ParserDests ==
    {"caps_directory", "diagnosis_tsv_path", "output_dir", "selection",
     "patch_size", "patch_stride", "mode", "network", "num_cnn",
     "diagnoses_list", "split", "batch_size", "num_workers", "gpu"}

\* attributes main reads that a caller of main may add to the options object
CallerDests == {"diagnoses", "n_fold"}

\* diagnosis labels, by index
Labels == {0, 1}

\* the options a run of the patch-level main can be given
PatchOptions ==
    [attrs : {ParserDests \cup x : x \in SUBSET CallerDests},
     mode : {"test", "valid"}, num_cnn : 0..MaxCnn, batch_size : 1..MaxBatch,
     split : 0..1, n_fold : 0..1]

\* lines 64-71: attributes read before the loop, in the order they are read
ReadsBeforeLoop(o) ==
    IF o.mode = "test"
    THEN <<"network", "gpu", "mode", "diagnosis_tsv_path", "diagnoses">>
    ELSE <<"network", "gpu", "mode", "diagnosis_tsv_path", "diagnoses", "split",
           "n_fold">>

\* lines 76-100: attributes read in one iteration, grouped by the call that
\* reads them
ReadsLoad == <<"caps_directory", "patch_size", "patch_stride", "batch_size",
               "num_workers", "output_dir", "n_fold", "selection", "gpu">>

\* lines 87-88: the fold of the checkpoint directory, "fold_" + str(n_fold)
CheckpointFold(o) == o.n_fold

\* lines 99 and 102: the fold the results are written and aggregated under
ResultsFold(o) == o.split

\* the first attribute of reads that the options object lacks: 0 when none
RECURSIVE FirstMissing(_, _, _)
FirstMissing(reads, attrs, i) ==
    IF i > Len(reads) THEN 0
    ELSE IF reads[i] \notin attrs THEN i
    ELSE FirstMissing(reads, attrs, i + 1)

Missing(reads, attrs) == FirstMissing(reads, attrs, 1) # 0

\* lines 79-84: the samples a DataLoader over len samples yields, in order,
\* with shuffle=False: with drop_last the incomplete last batch is dropped
DataLoader(len, batch_size, drop_last) ==
    IF drop_last THEN 1..((len \div batch_size) * batch_size) ELSE 1..len

\* the entry point of the patch-level script, were it to warn and go on as
\* the subject-level script does
PatchCliWarn ==
    /\ script = "patch"
    /\ pc = "cli"
    /\ calls' = calls \o (IF unknown # <<>>
                          THEN <<Call("print unknown arguments", {})>>
                          ELSE <<>>)
                      \o <<Call("main", {})>>
    /\ pc' = "main"
    /\ UNCHANGED <<script, unknown, err, svars, pvars>>

\* lines 105-110: the script's entry point, up to the call of main
PatchCli ==
    /\ script = "patch"
    /\ pc = "cli"
    /\ IF unknown # <<>>
       THEN Fail("Exception: unknown arguments") /\ calls' = calls
       ELSE /\ calls' = Append(calls, Call("main", {}))
            /\ pc' = "main"
            /\ err' = err
    /\ UNCHANGED <<script, unknown, svars, pvars>>

\* line 62: main called by a program that imported the module and built the
\* options object itself
PatchImport ==
    /\ script = "patch"
    /\ pc = "import"
    /\ calls' = Append(calls, Call("main", {}))
    /\ pc' = "main"
    /\ UNCHANGED <<script, unknown, err, svars, pvars>>

\* lines 64-71: the model, then the test table
PatchLoadData ==
    /\ script = "patch"
    /\ pc = "main"
    /\ IF Missing(ReadsBeforeLoop(toptions), toptions.attrs)
       THEN Fail("AttributeError") /\ UNCHANGED <<calls, test_df>>
       ELSE /\ \E len \in 0..MaxSamples : test_df' = 1..len
            /\ calls' = Append(calls, Call(IF toptions.mode = "test"
                                            THEN "load_data_test" ELSE "load_data",
                                            {}))
            /\ pc' = "loop"
            /\ err' = err
    /\ UNCHANGED <<script, unknown, svars, toptions, n, results, y_hat,
                   confidence, voting_args, aggregate>>

\* lines 74-91: the next classifier, its data loader and its checkpoint
PatchLoadModel ==
    /\ script = "patch"
    /\ pc = "loop"
    /\ n < toptions.num_cnn
    /\ IF Missing(ReadsLoad, toptions.attrs)
       THEN Fail("AttributeError") /\ calls' = calls
       ELSE /\ calls' = Append(calls, Call("load_model", {n}))
            /\ pc' = "test"
            /\ err' = err
    /\ UNCHANGED <<script, unknown, svars, pvars>>

\* lines 93-96: test runs the classifier over the data loader and returns a
\* prediction for each sample the loader yields
PatchTest ==
    /\ script = "patch"
    /\ pc = "test"
    /\ \E y \in [DataLoader(Cardinality(test_df), toptions.batch_size, TRUE)
                    -> Labels] : y_hat' = y
    /\ calls' = Append(calls, Call("test", {n}))
    /\ pc' = "write"
    /\ UNCHANGED <<script, unknown, err, svars, toptions, n, results, test_df,
                   confidence, voting_args, aggregate>>

\* lines 98-100: the results of classifier n are written, then the next n
PatchWrite ==
    /\ script = "patch"
    /\ pc = "write"
    /\ results' = [i \in DOMAIN results \cup {n} |->
                     IF i = n THEN [y_hat |-> y_hat, split |-> toptions.split,
                                    mode |-> toptions.mode]
                     ELSE results[i]]
    /\ calls' = Append(calls, Call("hard_voting_to_tsvs", {n}))
    /\ n' = n + 1
    /\ pc' = "loop"
    /\ UNCHANGED <<script, unknown, err, svars, toptions, test_df, y_hat,
                   confidence, voting_args, aggregate>>

(* ---- utils.multi_cnn_soft_majority_voting (design document 4.3) ------ *)

\* validation confidences of a patch classifier, in tenths
Confidences == {4, 9}

RECURSIVE Sum(_, _)
Sum(f, S) == IF S = {} THEN 0
             ELSE LET x == CHOOSE x \in S : TRUE IN f[x] + Sum(f, S \ {x})

\* the result tables the aggregator reads: those of the classifiers
\* 0..num_cnn-1 written under the given split and mode
VotingInput(res, split, num_cnn, mode) ==
    {i \in DOMAIN res : i < num_cnn /\ res[i].split = split /\ res[i].mode = mode}

\* the subjects with at least one result row
Subjects(res, input) == UNION {DOMAIN res[i].y_hat : i \in input}

\* total confidence of the classifiers that voted label for subject s
Weight(res, conf, input, s, label) ==
    Sum(conf, {i \in input : s \in DOMAIN res[i].y_hat /\ res[i].y_hat[s] = label})

\* the label most classifiers voted for, whatever their confidence
soft_majority_unweighted(res, conf, input, s) ==
    CHOOSE l \in Labels :
        \A m \in Labels :
            LET votes(x) == Cardinality({i \in input : s \in DOMAIN res[i].y_hat
                                                      /\ res[i].y_hat[s] = x})
            IN  votes(l) > votes(m) \/ (votes(l) = votes(m) /\ l <= m)

\* the label of highest total weight; of two such labels the lowest index
soft_majority(res, conf, input, s) ==
    CHOOSE l \in Labels :
        \A m \in Labels :
            \/ Weight(res, conf, input, s, l) > Weight(res, conf, input, s, m)
            \/ Weight(res, conf, input, s, l) = Weight(res, conf, input, s, m) /\ l <= m

\* one aggregate row per subject
multi_cnn_soft_majority_voting(res, conf, split, num_cnn, mode) ==
    LET input == VotingInput(res, split, num_cnn, mode)
    IN  [s \in Subjects(res, input) |->
            [label  |-> soft_majority(res, conf, input, s),
             weight |-> Weight(res, conf, input, s,
                               soft_majority(res, conf, input, s))]]

\* the arguments of the aggregator, were the fold taken from n_fold as it
\* is for the checkpoints
VotingArgsFold(o) == [split |-> o.n_fold, num_cnn |-> o.num_cnn, mode |-> o.mode]

\* the arguments line 102 hands the aggregator
VotingArgs(o) == [split |-> o.split, num_cnn |-> o.num_cnn, mode |-> o.mode]

\* line 102: after the loop, the voting aggregator
PatchVote ==
    /\ script = "patch"
    /\ pc = "loop"
    /\ n >= toptions.num_cnn
    /\ \E conf \in [0..(toptions.num_cnn - 1) -> Confidences] :
         /\ confidence' = conf
         /\ aggregate' = LET a == VotingArgs(toptions)
                         IN multi_cnn_soft_majority_voting(results, conf, a.split,
                                                           a.num_cnn, a.mode)
    /\ voting_args' = VotingArgs(toptions)
    /\ calls' = Append(calls, Call("multi_cnn_soft_majority_voting",
                                   {toptions.num_cnn}))
    /\ pc' = "done"
    /\ UNCHANGED <<script, unknown, err, svars, toptions, n, results, test_df, y_hat>>

(* ======================== specifications ============================== *)

Empty == [x \in {} |-> 0]

SubjectIdle ==
    /\ options = [model_is_class |-> TRUE, model_in_scope |-> TRUE,
                  evaluation_steps |-> 1, accumulation_steps |-> 1,
                  transfer_learning |-> "None",
                  transfer_learning_diagnoses |-> "None",
                  transfer_difference |-> 0,
                  epochs |-> 1, patience |-> 1, tolerance |-> 0]
    /\ fs = "absent"
    /\ copied = {}
    /\ trainer = IdleTrainer
    /\ history = <<>>
    /\ best_loss = NoCheckpoint
    /\ best_acc = NoCheckpoint
    /\ best_epoch = 0

PatchIdle ==
    /\ toptions = [attrs |-> ParserDests, mode |-> "test", num_cnn |-> 0,
                   batch_size |-> 1, split |-> 0, n_fold |-> 0]
    /\ n = 0
    /\ results = Empty
    /\ test_df = {}
    /\ y_hat = Empty
    /\ confidence = Empty
    /\ voting_args = Empty
    /\ aggregate = Empty

UnknownArgs == {<<>>, <<"--n_fold">>}

\* a run of the subject-level script: any command line; the file system holds
\* a file at options.transfer_learning only when the option is given
InitSubject ==
    /\ script = "subject"
    /\ pc = "cli"
    /\ unknown \in UnknownArgs
    /\ calls = <<>>
    /\ err = "none"
    /\ options \in SubjectOptions
    /\ fs \in Files
    /\ options.transfer_learning = "None" =>
          /\ fs = "absent"
          /\ options.transfer_learning_diagnoses = "None"
          /\ options.transfer_difference = 0
    /\ copied = {}
    /\ trainer = IdleTrainer
    /\ history = <<>>
    /\ best_loss = NoCheckpoint
    /\ best_acc = NoCheckpoint
    /\ best_epoch = 0
    /\ PatchIdle

\* a run of the patch-level script (the options are the parser's), or a call
\* of its main by an importing program (with the attributes that program set)
InitPatch ==
    /\ script = "patch"
    /\ pc \in {"cli", "import"}
    /\ unknown \in UnknownArgs
    /\ pc = "import" => unknown = <<>>
    /\ calls = <<>>
    /\ err = "none"
    /\ toptions \in PatchOptions
    /\ pc = "cli" => toptions.attrs = ParserDests /\ toptions.n_fold = 0
    /\ "n_fold" \notin toptions.attrs => toptions.n_fold = 0
    /\ n = 0
    /\ results = Empty
    /\ test_df = {}
    /\ y_hat = Empty
    /\ confidence = Empty
    /\ voting_args = Empty
    /\ aggregate = Empty
    /\ SubjectIdle

Init == (InitSubject /\ options.epochs = 1 /\ options.patience = 1
                     /\ options.tolerance = 0)
        \/ InitPatch

Next ==
    \/ SubjectCli
    \/ MainCheckModel
    \/ MainCheckSteps
    \/ MainPretraining
    \/ GreedyLearningReturn
    \/ MainTrain
    \/ TrainStep
    \/ TrainReturn
    \/ MainLoadBest
    \/ PatchCli
    \/ PatchImport
    \/ PatchLoadData
    \/ PatchLoadModel
    \/ PatchTest
    \/ PatchWrite
    \/ PatchVote

Spec == Init /\ [][Next]_vars

\* the training runs: a command line that passes every check and asks for no
\* pretraining, with any number of epochs, patience and tolerance
InitTrain ==
    /\ InitSubject
    /\ unknown = <<>>
    /\ options.model_is_class
    /\ options.model_in_scope
    /\ options.evaluation_steps = 1
    /\ options.accumulation_steps = 1
    /\ options.transfer_learning = "None"

NextTrain ==
    \/ SubjectCli
    \/ MainCheckModel
    \/ MainCheckSteps
    \/ MainPretraining
    \/ MainTrain
    \/ TrainStep
    \/ TrainReturn
    \/ MainLoadBest

SpecTrain == InitTrain /\ [][NextTrain]_vars

\* the calls main has made when the loop over num_cnn classifiers has ended
RECURSIVE LoopCalls(_)
LoopCalls(k) ==
    IF k = 0 THEN <<Call("main", {}), Call("load_data_test", {})>>
    ELSE LoopCalls(k - 1) \o <<Call("load_model", {k - 1}), Call("test", {k - 1}),
                               Call("hard_voting_to_tsvs", {k - 1})>>

\* the voting runs: the patch-level main at line 102, the results of VoteCnn
\* classifiers written for every subject of the test table
InitVote ==
    /\ script = "patch"
    /\ pc = "loop"
    /\ unknown = <<>>
    /\ err = "none"
    /\ toptions = [attrs |-> ParserDests \cup CallerDests, mode |-> "test",
                   num_cnn |-> VoteCnn, batch_size |-> 1, split |-> 0,
                   n_fold |-> 0]
    /\ n = VoteCnn
    /\ calls = LoopCalls(VoteCnn)
    /\ \E len \in 1..VoteSamples :
          /\ test_df = 1..len
          /\ results \in [0..(VoteCnn - 1) ->
                            [y_hat : [1..len -> Labels], split : {0},
                             mode : {"test"}]]
    /\ y_hat = results[VoteCnn - 1].y_hat
    /\ confidence = Empty
    /\ voting_args = Empty
    /\ aggregate = Empty
    /\ SubjectIdle

NextVote == PatchVote

SpecVote == InitVote /\ [][NextVote]_vars

(* ============================ claims ================================== *)

\* the program has gone past the pretraining block of the subject-level main
PastPretraining == pc \in {"greedy_learning", "data", "train", "load", "done"}

\* the three configuration errors of the subject-level main, read off the
\* command line and the file system
UnknownModel == ~options.model_is_class
CadenceMismatch ==
    /\ options.evaluation_steps # 1
    /\ \A k \in 0..MaxSteps :
          options.evaluation_steps # k * options.accumulation_steps
MissingDiagnoses ==
    /\ options.transfer_learning # "None"
    /\ fs = "absent"
    /\ options.transfer_learning_diagnoses = "None"

\* C1: a run of the subject-level script with an unknown model name, a
\* cadence mismatch or a missing diagnosis list never starts greedy_learning
\* or train, cannot stop anywhere but in an error, and carries an exception
\* once it has stopped.
C1_ConfigErrorsFailFast ==
    (script = "subject" /\ (UnknownModel \/ CadenceMismatch \/ MissingDiagnoses)) =>
        /\ ~Called("greedy_learning")
        /\ ~Called("train")
        /\ ~PastPretraining
        /\ pc # "error" => ENABLED Next
        /\ pc = "error" => err # "none"

\* C1 witness: the run stopped on the missing diagnosis list, the other two
\* checks passed
C1_Witness ==
    /\ script = "subject"
    /\ pc = "error"
    /\ err = "Exception: diagnosis labels"
    /\ MissingDiagnoses /\ ~UnknownModel /\ ~CadenceMismatch

\* C2 as stated: whenever the subject-level main has called train,
\* evaluation_steps is a multiple of accumulation_steps.
C2_Original ==
    (script = "subject" /\ Called("train")) =>
        \E k \in 0..MaxSteps :
            options.evaluation_steps = k * options.accumulation_steps

\* C2 amended: whenever the subject-level main has called train,
\* evaluation_steps is 1 or a multiple of accumulation_steps.
C2_MultipleOrOne ==
    (script = "subject" /\ Called("train")) =>
        \/ options.evaluation_steps = 1
        \/ \E k \in 0..MaxSteps :
              options.evaluation_steps = k * options.accumulation_steps

\* C2 witness: train was called with evaluation_steps 1 and a larger
\* accumulation_steps, the pair the check lets through
C2_Witness ==
    /\ script = "subject"
    /\ Called("train")
    /\ options.evaluation_steps = 1
    /\ options.accumulation_steps > 1

\* C3: unrecognised arguments.  Subject-level: they are printed before main
\* is called and main is called all the same.  Patch-level: they raise and
\* main is never called.  With none, both scripts call main, nothing is
\* printed and nothing is raised by this check.
C3_UnknownArguments ==
    /\ (script = "subject" /\ pc # "cli") =>
          /\ Called("main")
          /\ err # "Exception: unknown arguments"
          /\ Called("print unknown arguments") <=> unknown # <<>>
          /\ unknown # <<>> =>
                FirstCall("print unknown arguments") < FirstCall("main")
    /\ (script = "patch" /\ pc \notin {"cli", "import"}) =>
          /\ ~Called("print unknown arguments")
          /\ unknown # <<>> =>
                ~Called("main") /\ pc = "error"
                                /\ err = "Exception: unknown arguments"
          /\ unknown = <<>> =>
                Called("main") /\ err # "Exception: unknown arguments"

\* C3 witness: the patch-level script stopped on an unrecognised argument
C3_Witness ==
    /\ script = "patch"
    /\ unknown # <<>>
    /\ pc = "error"
    /\ calls = <<>>

WeightCopies == {"apply_autoencoder_weights", "apply_pretrained_network_weights"}
CopyCalls == {i \in 1..Len(calls) : calls[i].op \in WeightCopies}

\* the run of the subject-level main has passed its first two checks and has
\* left the pretraining block, one way or the other
PretrainingOver == script = "subject" /\ (PastPretraining \/ err \notin
    {"none", "NotImplementedError", "Exception: evaluation steps"})

\* C4 as stated: with transfer_learning given, an existing path leads to
\* exactly one weight copy (the one the checkpoint's kind selects) and no
\* greedy_learning; a missing path with a diagnosis list leads to exactly
\* one greedy_learning, returned before train is called, and no weight copy;
\* a missing path without the list leads to an error.  Without
\* transfer_learning none of the three operations runs.
C4_Original ==
    PretrainingOver =>
        /\ (options.transfer_learning # "None" /\ path_exists(fs)) =>
              /\ Cardinality(CopyCalls) = 1
              /\ Called("apply_autoencoder_weights") <=> fs = "autoencoder"
              /\ ~Called("greedy_learning")
        /\ (options.transfer_learning # "None" /\ ~path_exists(fs)
              /\ options.transfer_learning_diagnoses # "None") =>
              /\ CopyCalls = {}
              /\ CountCalls("greedy_learning") = 1
              /\ Called("train") =>
                    /\ Called("greedy_learning returned")
                    /\ FirstCall("greedy_learning returned") < FirstCall("train")
        /\ MissingDiagnoses =>
              /\ pc = "error"
              /\ CopyCalls = {}
              /\ ~Called("greedy_learning")
        /\ options.transfer_learning = "None" =>
              /\ CopyCalls = {}
              /\ ~Called("greedy_learning")
              /\ pc # "error"

C6_Original ==
    (script = "patch" /\ pc = "done") =>
        \A i \in 0..(toptions.num_cnn - 1) :
            /\ i \in DOMAIN results
            /\ DOMAIN results[i].y_hat = test_df

\* the number of consecutive checks, counted back from the last one of h, at
\* which the loss did not improve by more than tol on the loss of the last
\* check that did (the first check always counts as improving)
RECURSIVE Replay(_, _, _, _, _)
Replay(h, i, ref, bad, tol) ==
    IF i > Len(h) THEN bad
    ELSE IF i = 1 \/ ref - h[i][1] > tol
         THEN Replay(h, i + 1, h[i][1], 0, tol)
         ELSE Replay(h, i + 1, ref, bad + 1, tol)
NonImproving(h, tol) == Replay(h, 1, 0, 0, tol)

\* C7: train is EarlyStopped exactly when the last check was the
\* patience-th consecutive non-improving one; the count never passes
\* patience, and no earlier check had reached it; train is Completed exactly
\* when all epochs have run without reaching it, and Running only while epochs
\* remain.
C7_EarlyStopping ==
    (script = "subject" /\ trainer.state # "Idle") =>
        LET run == NonImproving(history, options.tolerance)
        IN  /\ trainer.state = "EarlyStopped" <=> run = options.patience
            /\ run <= options.patience
            /\ \A k \in 0..(Len(history) - 1) :
                  NonImproving(SubSeq(history, 1, k), options.tolerance)
                      < options.patience
            /\ trainer.state = "Completed" <=>
                  (Len(history) = options.epochs /\ run < options.patience)
            /\ trainer.state = "Running" => Len(history) < options.epochs

\* C7 witness: train stopped early, before the last epoch, at the second
\* of two consecutive checks that did not improve
C7_Witness ==
    /\ script = "subject"
    /\ trainer.state = "EarlyStopped"
    /\ options.patience = 2
    /\ Len(history) < options.epochs
    /\ NonImproving(SubSeq(history, 1, Len(history) - 1), options.tolerance) = 1

\* the validation that a step of train has just added to history
NewCheck == history'[Len(history')]

\* C8: a validation supersedes the best_loss checkpoint if and only if its
\* loss is strictly lower than every earlier one, and the best_acc checkpoint
\* if and only if its accuracy is strictly higher than every earlier one, each
\* decided on its own; what main reloads after training is the checkpoint of
\* an epoch of lowest validation loss.
C8_CheckpointMonotonicity ==
    /\ [][history' # history =>
            /\ best_loss' # best_loss <=>
                  \A i \in 1..Len(history) : NewCheck[1] < history[i][1]
            /\ best_acc' # best_acc <=>
                  \A i \in 1..Len(history) : NewCheck[2] > history[i][2]
            /\ best_loss' # best_loss => best_loss'.epoch = Len(history')
            /\ best_acc' # best_acc => best_acc'.epoch = Len(history')]_vars
    /\ [](script = "subject" /\ pc = "done" =>
            /\ best_epoch \in 1..Len(history)
            /\ \A i \in 1..Len(history) : history[best_epoch][1] <= history[i][1])

\* C8 witness: main has reloaded best_loss, and the two checkpoints hold
\* different epochs
C8_Witness ==
    /\ script = "subject"
    /\ pc = "done"
    /\ best_epoch = best_loss.epoch
    /\ best_loss.epoch # best_acc.epoch
    /\ best_loss.epoch > 1

\* total confidence of the classifiers whose result row for subject s holds
\* label l
TotalWeight(s, l) ==
    Sum(confidence, {i \in DOMAIN results : s \in DOMAIN results[i].y_hat
                                            /\ results[i].y_hat[s] = l})

\* the aggregator has run: every subject of the test table has one aggregate
\* row, whose label has the highest total weight, the lowest index among
\* labels of equal weight
WeightedVote ==
    /\ DOMAIN aggregate = test_df
    /\ \A s \in test_df : \A m \in Labels :
          \/ TotalWeight(s, aggregate[s].label) > TotalWeight(s, m)
          \/ /\ TotalWeight(s, aggregate[s].label) = TotalWeight(s, m)
             /\ aggregate[s].label <= m

\* three classifiers of confidence 0.9, 0.4, 0.4 vote A, B, B (labels 0, 1, 1)
\* for subject s
LiteralScenario(s) ==
    /\ DOMAIN results = {0, 1, 2}
    /\ confidence[0] = 9 /\ confidence[1] = 4 /\ confidence[2] = 4
    /\ results[0].y_hat[s] = 0 /\ results[1].y_hat[s] = 1
    /\ results[2].y_hat[s] = 1

IsLoopCall(c) == c.op \in {"load_model", "test", "hard_voting_to_tsvs",
                           "multi_cnn_soft_majority_voting"}

\* load, test, write for 0, 1, ..., k-1 in turn
RECURSIVE AscendingOrder(_)
AscendingOrder(k) ==
    IF k = 0 THEN <<>>
    ELSE AscendingOrder(k - 1) \o <<Call("load_model", {k - 1}),
                                    Call("test", {k - 1}),
                                    Call("hard_voting_to_tsvs", {k - 1})>>

IsPrefix(s, t) == Len(s) <= Len(t) /\ s = SubSeq(t, 1, Len(s))

\* C10: the calls of the patch-level main are, in order, load_model(n),
\* test(n), hard_voting_to_tsvs(patch_index = n) for n = 0, ..., num_cnn-1 and
\* then the aggregator, once; when main is done all of them have been made,
\* and the aggregator was given the num_cnn, split and mode of the result
\* tables written.
C10_PatchOrder ==
    script = "patch" =>
        LET made     == SelectSeq(calls, IsLoopCall)
            expected == AscendingOrder(toptions.num_cnn)
                        \o <<Call("multi_cnn_soft_majority_voting",
                                  {toptions.num_cnn})>>
        IN  /\ IsPrefix(made, expected)
            /\ pc = "done" =>
                  /\ made = expected
                  /\ DOMAIN results = 0..(toptions.num_cnn - 1)
                  /\ voting_args.num_cnn = Cardinality(DOMAIN results)
                  /\ \A i \in DOMAIN results :
                        /\ results[i].split = voting_args.split
                        /\ results[i].mode = voting_args.mode

\* C10 witness: main is done after two classifiers
C10_Witness ==
    /\ script = "patch"
    /\ pc = "done"
    /\ toptions.num_cnn = 2
    /\ toptions.n_fold # toptions.split
    /\ Len(SelectSeq(calls, IsLoopCall)) = 7

\* the options object is the one the script's parser built from a command
\* line of recognised arguments only
FromParser == script = "patch" /\ toptions.attrs = ParserDests /\ unknown = <<>>

\* C11 as stated: no attribute main reads is missing from the options the
\* parser builds, so a run of the patch-level script on recognised arguments
\* only, in either mode, never stops on a missing attribute, or on any other
\* error, on its way to the aggregator; and the checkpoints are looked up
\* under the fold the results are written under.
C11_Original ==
    /\ FromParser => (err # "AttributeError" /\ pc # "error")
    /\ (script = "patch" /\ Called("load_model")) =>
          CheckpointFold(toptions) = ResultsFold(toptions)

====
